---- MODULE Spec2Model ----
(***************************************************************************)
(* Temporal redaction engine of privacylens.                               *)
(*                                                                         *)
(* Three source modules carry the same buffering loop:                     *)
(*   "yolo"      src/yolo-clean/blur.py        blur_video(.., conf_lvl)    *)
(*   "backend"   src/backend/pipeline/blur.py  blur_video(.., blur_ids)    *)
(*   "detblurv2" src/yolo-clean/detblurv2.py   process_video(.., conf_lvl) *)
(* Each module owns its own globals blurred_ids, blur_counters and         *)
(* BUFFER_FRAMES; a behaviour of the model is one Python process that has  *)
(* loaded one of them and calls its entry point any number of times.       *)
(*                                                                         *)
(* A frame is abstracted to the calls made on it: calls[i] counts the      *)
(* apply_blur(frame, boxes_xyxy[i]) calls, labels[i] the cv2.putText calls *)
(* made for detection i of the frame's own result.                         *)
(***************************************************************************)
EXTENDS Integers, Sequences, FiniteSets, TLC

\* ---- bounds of the exploration ----
MaxTrack == 2
MaxDetections == 2
MaxBuffer == 2
Margin == 2
LongMargin == 3
MaxExtractFrames == 3
MaxExtractDets == 2
MaxExtractDetections == 3
MaxWidth == 3
MaxHeight == 2

\* BUFFER_FRAMES = 10 in all three modules
DefaultBufferFrames == 10

Tracks == 1..MaxTrack

\* cv2.GaussianBlur(roi, (51, 51), 30)
KernelSize == 51

\* call sites: blur_video(.., conf_lvl=0.85), process_video(.., 0.9); in percent
YoloConfLvl == 85
DetblurConfLvl == 90
\* the backend module takes no threshold; its streams carry the detector's
\* floor (process_video(video_path, conf=0.85)) and one value above it
BackendConf == 85
\* confidences just below, at and just above the threshold
Confs(lvl) == IF lvl = 0 THEN {BackendConf, BackendConf + 1}
              ELSE {lvl - 1, lvl, lvl + 1}
SteadyConfs(lvl) == IF lvl = 0 THEN {BackendConf} ELSE {lvl - 1, lvl}
UntrackedConfs(lvl) == IF lvl = 0 THEN {BackendConf} ELSE {lvl}
Modules == {"yolo", "backend", "detblurv2"}
ThresholdModules == {"yolo", "detblurv2"}

SeqsUpTo(S, k) == UNION {[1..m -> S] : m \in 0..k}

\* the tracker numbers tracks in order of first appearance: with `seen` the
\* highest id handed out so far, a detection list introduces seen+1, seen+2..
RECURSIVE InOrder(_, _, _)
InOrder(d, i, seen) ==
    \/ i > Len(d)
    \/ /\ d[i].id <= seen + 1
       /\ InOrder(d, i + 1, IF d[i].id > seen THEN d[i].id ELSE seen)
RECURSIVE MaxId(_, _, _)
MaxId(d, i, seen) ==
    IF i > Len(d) THEN seen
    ELSE MaxId(d, i + 1, IF d[i].id > seen THEN d[i].id ELSE seen)

\* result.boxes of one frame: has_ids is `result.boxes.id is not None`; a
\* frame the tracker reports nothing on has no ids
TrackedResults(confs, k, seen) ==
    {[has_ids |-> TRUE, dets |-> d] :
        d \in {x \in SeqsUpTo([id : Tracks, conf : confs], k) :
                    x # <<>> /\ InOrder(x, 1, seen)}}
UntrackedResults(confs, k) ==
    {[has_ids |-> FALSE, dets |-> d] :
        d \in SeqsUpTo([conf : confs], IF k > 0 THEN 1 ELSE 0)}
\* one track, one detection on every frame, below or at the threshold
SteadyResults(lvl) ==
    {[has_ids |-> TRUE, dets |-> <<[id |-> 1, conf |-> c]>>] : c \in SteadyConfs(lvl)}

\* short buffers, the six-frame buffer of the late-activation scenario and
\* the buffer of the source
BufferSizes == (1..MaxBuffer) \cup {6, DefaultBufferFrames}

\* the detection streams explored for a buffer of bf frames: short buffers
\* see every stream of at most MaxDetections detections, long buffers the
\* steady single-track streams
Results(bf, lvl, k, seen) ==
    IF bf <= MaxBuffer
    THEN TrackedResults(Confs(lvl), k, seen) \cup UntrackedResults(UntrackedConfs(lvl), k)
    ELSE SteadyResults(lvl)
MaxFrames(bf) == IF bf <= MaxBuffer THEN bf + Margin ELSE bf + LongMargin

VARIABLES
    module,         \* which source module the process has loaded
    BUFFER_FRAMES,  \* module global
    blurred_ids,    \* module global: set of track ids
    blur_counters,  \* module global: dict track id -> frames remaining
    pc,             \* position inside the entry point
    conf_lvl,       \* argument (threshold modules)
    blur_ids,       \* argument (backend module)
    carried,        \* blurred_ids as the frame loop of this run starts
    n,              \* number of (frame, result) pairs taken from the input
    frame_buffer,   \* deque of [frame, result]
    new_ids,        \* value returned by process_frame
    out,            \* frames handed to out.write, in order
    last_write,     \* the frame handed to out.write last
    budget,         \* detections the rest of the input may still carry
    seen,           \* highest track id the tracker has handed out in this run
    first_qual,     \* per track, index of the first frame of this run with
                    \* a detection of confidence >= conf_lvl (-1: none yet)
    last_seen,      \* per track, index of the last frame of this run with a
                    \* detection of the track (-1: none yet)
    outcome,        \* how the last call ended: the input it was given, the
                    \* exception that left it, what the output path holds
    render,         \* apply_blur on a frame of pixels (RenderSpec)
    extract,        \* _extract_unique_tracks on a list of results (ExtractSpec)
    video_storage,  \* backend/main.py global: dict video id -> entry
    files,          \* paths that exist under uploads/ and processed/
    issued,         \* video ids uuid4 has handed out
    requests,       \* protect requests: position, arguments, response
    clock           \* time.time(), counted in calls

vars == <<module, BUFFER_FRAMES, blurred_ids, blur_counters, pc, conf_lvl,
          blur_ids, carried, last_write, n, frame_buffer, new_ids, out, budget, seen, first_qual, last_seen,
          outcome, render, extract,
          video_storage, files, issued, requests, clock>>

\* the state of the API process (ApiSpec)
api == <<video_storage, files, issued, requests, clock>>

\* nothing has been called yet
NoOutcome == [input |-> "none", error |-> "none", file |-> "none"]
RenderIdle == [pc |-> "idle"]
ExtractIdle == [pc |-> "idle"]

EmptyDict == [t \in {} |-> 0]
\* `video_storage = {}`, empty directories, no request received
ApiIdle ==
    /\ video_storage = EmptyDict
    /\ files = {}
    /\ issued = {}
    /\ requests = <<>>
    /\ clock = 0
NoQual == [t \in Tracks |-> -1]

Get(d, k, default) == IF k \in DOMAIN d THEN d[k] ELSE default
Put(d, k, v) == [x \in DOMAIN d \cup {k} |-> IF x = k THEN v ELSE d[x]]

Zeros(len) == [i \in 1..len |-> 0]
NewFrame(idx, result) ==
    [idx |-> idx, calls |-> Zeros(Len(result.dets)),
     labels |-> Zeros(Len(result.dets))]

\* ---- apply_blur / putText on the abstract frame ----
apply_blur(frame, i) == [frame EXCEPT !.calls[i] = @ + 1]
putText(frame, i) == [frame EXCEPT !.labels[i] = @ + 1]

\* mutant: the comparison is strict
ActivatesStrict(conf, lvl, track_id, ids) == conf > lvl /\ track_id \notin ids

\* mutant: the threshold is taken one point too low
ActivatesLoose(conf, lvl, track_id, ids) == conf >= lvl - 1 /\ track_id \notin ids

\* `conf >= conf_lvl and track_id not in blurred_ids`
Activates(conf, lvl, track_id, ids) == conf >= lvl /\ track_id \notin ids

\* mutant: only the counter decides
ShouldBlurCounting(track_id, ids, counters) == Get(counters, track_id, 0) > 0

\* `track_id in blurred_ids or blur_counters.get(track_id, 0) > 0`
ShouldBlur(track_id, ids, counters) ==
    track_id \in ids \/ Get(counters, track_id, 0) > 0

\* the detection loop of process_frame (threshold modules); st carries the
\* globals, new_ids and the frame being drawn on
RECURSIVE process_frame_loop(_, _, _, _)
process_frame_loop(i, dets, lvl, st) ==
    IF i > Len(dets) THEN st
    ELSE
      LET track_id == dets[i].id
          conf == dets[i].conf
          act == Activates(conf, lvl, track_id, st.blurred_ids)
          s1 == IF act
                THEN [st EXCEPT !.blurred_ids = @ \cup {track_id},
                                !.new_ids = @ \cup {track_id},
                                !.blur_counters = Put(@, track_id, BUFFER_FRAMES)]
                ELSE st
          s2 == IF ShouldBlur(track_id, s1.blurred_ids, s1.blur_counters)
                THEN [s1 EXCEPT !.frame = putText(apply_blur(@, i), i)]
                ELSE s1
      IN process_frame_loop(i + 1, dets, lvl, s2)

\* mutant: a result without track ids has every box blurred
process_frame_all_boxes(frame, result, lvl, ids, counters) ==
    LET st0 == [blurred_ids |-> ids, blur_counters |-> counters,
                new_ids |-> {}, frame |-> frame]
    IN IF ~result.has_ids
       THEN [st0 EXCEPT !.frame.calls = [i \in DOMAIN @ |-> @[i] + 1]]
       ELSE process_frame_loop(1, result.dets, lvl, st0)

\* process_frame(frame, result, conf_lvl): `if track_ids is None: return new_ids`
process_frame(frame, result, lvl, ids, counters) ==
    LET st0 == [blurred_ids |-> ids, blur_counters |-> counters,
                new_ids |-> {}, frame |-> frame]
    IN IF ~result.has_ids THEN st0
       ELSE process_frame_loop(1, result.dets, lvl, st0)

\* mutant: every tracked detection is blurred
CuratedAny(track_id, ids) == TRUE

\* `track_id in blur_ids`
Curated(track_id, ids) == track_id \in ids

\* process_frame of the backend module: membership in blur_ids only
RECURSIVE curated_frame_loop(_, _, _, _)
curated_frame_loop(i, dets, ids, frame) ==
    IF i > Len(dets) THEN frame
    ELSE curated_frame_loop(i + 1, dets, ids,
            IF Curated(dets[i].id, ids)
            THEN putText(apply_blur(frame, i), i)
            ELSE frame)

curated_process_frame(frame, result, ids) ==
    IF ~result.has_ids THEN frame
    ELSE curated_frame_loop(1, result.dets, ids, frame)

\* mutant: the retroactive pass draws nothing
retro_blur_none(frame, result, ids) == frame

\* mutant: the retroactive pass blurs every tracked box
retro_blur_all(frame, result, ids) ==
    IF ~result.has_ids THEN frame
    ELSE [frame EXCEPT !.calls = [i \in DOMAIN @ |-> @[i] + 1]]

\* retro_blur(frame, result, new_ids)
RECURSIVE retro_blur_loop(_, _, _, _)
retro_blur_loop(i, dets, ids, frame) ==
    IF i > Len(dets) THEN frame
    ELSE retro_blur_loop(i + 1, dets, ids,
            IF dets[i].id \in ids THEN apply_blur(frame, i) ELSE frame)

retro_blur(frame, result, ids) ==
    IF ~result.has_ids THEN frame
    ELSE retro_blur_loop(1, result.dets, ids, frame)

\* mutant: the pass starts one frame late
RetroTargetsRecent(buf) == 2..Len(buf)

\* mutant: the pass leaves out the frame just pushed
RetroTargetsPast(buf) == 1..(Len(buf) - 1)

\* `for past_frame, past_result in frame_buffer: retro_blur(...)`
RetroTargets(buf) == 1..Len(buf)

\* mutant: the decrement has no floor
update_counters_unfloored(counters) ==
    [t \in DOMAIN counters |-> counters[t] - 1]

\* update_counters()
update_counters(counters) ==
    [t \in DOMAIN counters |->
        IF counters[t] - 1 > 0 THEN counters[t] - 1 ELSE 0]

\* deque(maxlen=..).append: a full deque discards its leftmost element
deque_append(buf, e, maxlen) ==
    IF Len(buf) >= maxlen THEN Append(Tail(buf), e) ELSE Append(buf, e)

\* mutant: the test is `>`
AtCapacityOver(buf, cap) == Len(buf) > cap

\* mutant: the pop comes one frame early
AtCapacityEarly(buf, cap) == Len(buf) >= cap - 1

\* `len(frame_buffer) == BUFFER_FRAMES`
AtCapacity(buf, cap) == Len(buf) = cap

\* mutant: the buffer is one frame larger
CapacityPlusOne(bf) == bf + 1

\* the size blur_video gives the deque and tests its length against
Capacity(bf) == bf

\* mutant: pop() takes the newest frame
popright(buf) ==
    [oldest |-> buf[Len(buf)], rest |-> SubSeq(buf, 1, Len(buf) - 1)]

\* frame_buffer.popleft()
popleft(buf) == [oldest |-> Head(buf), rest |-> Tail(buf)]

\* what out.write receives, read by track: the tracks detected on the frame,
\* those with a detection no apply_blur call has covered, those with a
\* detection some call has covered, and blurred_ids at the time of the write.
\* The sink keeps the index and the uncovered tracks of every frame (out) and
\* the full reading of the frame written last (last_write).
DetsWhere(e, calls) ==
    {e.result.dets[i].id : i \in {j \in 1..Len(e.result.dets) :
                                    e.result.has_ids /\ e.frame.calls[j] \in calls}}
Written(e, ids) ==
    [idx |-> e.frame.idx,
     tracks |-> DetsWhere(e, Nat),
     bare |-> DetsWhere(e, {0}),
     covered |-> DetsWhere(e, Nat \ {0}),
     active |-> ids]
Kept(w) == [idx |-> w.idx, bare |-> w.bare]
NoWrite == [idx |-> -1, tracks |-> {}, bare |-> {}, covered |-> {}, active |-> {}]

\* first qualifying frame per track, read off the input stream
Qualifies(result, t, lvl) ==
    /\ result.has_ids
    /\ \E i \in 1..Len(result.dets) :
          result.dets[i].id = t /\ result.dets[i].conf >= lvl
NoteQual(fq, result, idx, lvl) ==
    [t \in Tracks |->
        IF fq[t] = -1 /\ Qualifies(result, t, lvl) THEN idx ELSE fq[t]]
Detected(result, t) ==
    /\ result.has_ids
    /\ \E i \in 1..Len(result.dets) : result.dets[i].id = t
NoteSeen(ls, result, idx) ==
    [t \in Tracks |-> IF Detected(result, t) THEN idx ELSE ls[t]]

\* ---- module load ----
Init ==
    /\ module \in Modules
    /\ BUFFER_FRAMES \in BufferSizes
    /\ blurred_ids = {}
    /\ blur_counters = EmptyDict
    /\ pc = "idle"
    /\ conf_lvl = 0
    /\ blur_ids = {}
    /\ carried = {}
    /\ n = 0
    /\ frame_buffer = <<>>
    /\ new_ids = {}
    /\ out = <<>>
    /\ last_write = NoWrite
    /\ budget = 0
    /\ seen = 0
    /\ first_qual = NoQual
    /\ last_seen = NoQual
    /\ outcome = NoOutcome
    /\ render = RenderIdle
    /\ extract = ExtractIdle
    /\ ApiIdle

Callable == pc \in {"idle", "done", "raised"}

\* blur_video on an empty list: the globals are reset (and, in the backend,
\* loaded with blur_ids), then `results_data[0]` raises IndexError before the
\* VideoWriter is opened
EmptyInput ==
    /\ Callable
    /\ module \in {"yolo", "backend"}
    /\ IF module = "backend"
       THEN /\ \E S \in SUBSET Tracks : blur_ids' = S /\ blurred_ids' = S
            /\ UNCHANGED conf_lvl
       ELSE /\ blurred_ids' = {}
            /\ conf_lvl' = YoloConfLvl
            /\ UNCHANGED blur_ids
    /\ blur_counters' = EmptyDict
    /\ pc' = "raised"
    /\ n' = 0
    /\ frame_buffer' = <<>>
    /\ new_ids' = {}
    /\ out' = <<>>
    /\ last_write' = NoWrite
    /\ budget' = MaxDetections
    /\ seen' = 0
    /\ first_qual' = NoQual
    /\ last_seen' = NoQual
    /\ carried' = blurred_ids'
    /\ UNCHANGED <<module, BUFFER_FRAMES>>
    /\ outcome' = [input |-> "empty", error |-> "IndexError", file |-> "none"]
    /\ UNCHANGED <<render, extract, api>>

\* blur_video(results_data, output_video_path, conf_lvl), yolo-clean
BlurVideo ==
    /\ Callable
    /\ module = "yolo"
    /\ conf_lvl' = YoloConfLvl
    /\ blurred_ids' = {}
    /\ blur_counters' = EmptyDict
    /\ pc' = "loop"
    /\ n' = 0
    /\ frame_buffer' = <<>>
    /\ new_ids' = {}
    /\ out' = <<>>
    /\ last_write' = NoWrite
    /\ budget' = MaxDetections
    /\ seen' = 0
    /\ first_qual' = NoQual
    /\ last_seen' = NoQual
    /\ carried' = {}
    /\ UNCHANGED <<module, BUFFER_FRAMES, blur_ids>>
    /\ outcome' = [input |-> "frames", error |-> "none", file |-> "writer"]
    /\ UNCHANGED <<render, extract, api>>

\* blur_video(results_data, output_video_path, blur_ids), backend
BlurVideoCurated ==
    /\ Callable
    /\ module = "backend"
    /\ \E S \in SUBSET Tracks : blur_ids' = S /\ blurred_ids' = S
    /\ blur_counters' = EmptyDict
    /\ pc' = "loop"
    /\ n' = 0
    /\ frame_buffer' = <<>>
    /\ new_ids' = {}
    /\ out' = <<>>
    /\ last_write' = NoWrite
    /\ budget' = MaxDetections
    /\ seen' = 0
    /\ first_qual' = NoQual
    /\ last_seen' = NoQual
    /\ carried' = blurred_ids'
    /\ UNCHANGED <<module, BUFFER_FRAMES, conf_lvl>>
    /\ outcome' = [input |-> "frames", error |-> "none", file |-> "writer"]
    /\ UNCHANGED <<render, extract, api>>

\* process_video(input, output, model_path, conf_lvl): the globals are
\* not cleared
ProcessVideo ==
    /\ Callable
    /\ module = "detblurv2"
    /\ conf_lvl' = DetblurConfLvl
    /\ pc' = "loop"
    /\ n' = 0
    /\ frame_buffer' = <<>>
    /\ new_ids' = {}
    /\ out' = <<>>
    /\ last_write' = NoWrite
    /\ budget' = MaxDetections
    /\ seen' = 0
    /\ first_qual' = NoQual
    /\ last_seen' = NoQual
    /\ carried' = blurred_ids
    /\ UNCHANGED <<module, BUFFER_FRAMES, blurred_ids, blur_counters, blur_ids>>
    /\ outcome' = [input |-> "stream", error |-> "none", file |-> "writer"]
    /\ UNCHANGED <<render, extract, api>>

\* def blur_video(results_data, output_video_path, blur_ids) of the backend
BlurVideoParams == <<"results_data", "output_video_path", "blur_ids">>

\* Python's binding of a call with npos positional arguments and the given
\* keywords to a function whose parameters have no defaults: TypeError unless
\* every keyword names a parameter not filled positionally and every
\* parameter is filled
Binds(params, npos, keywords) ==
    /\ npos <= Len(params)
    /\ keywords \subseteq {params[i] : i \in (npos + 1)..Len(params)}
    /\ {params[i] : i \in (npos + 1)..Len(params)} \subseteq keywords

\* the locals of a run that is starting
RunLocals(newpc) ==
    /\ pc' = newpc
    /\ n' = 0
    /\ frame_buffer' = <<>>
    /\ new_ids' = {}
    /\ out' = <<>>
    /\ last_write' = NoWrite
    /\ budget' = MaxDetections
    /\ seen' = 0
    /\ first_qual' = NoQual
    /\ last_seen' = NoQual

\* create_protected_video_with_blur of backend/main.py:
\*     results_data = detect_video(original_path, MODEL_PATH)
\*     blur_video(results_data, str(protected_path), conf_lvl=0.7)
\* inside `try`, with `except Exception:` returning
\* create_mock_protected_video(..), which copies the original file to the
\* protected path with shutil.copy2. The call is bound before the body of
\* blur_video runs; a TypeError at the binding leaves the globals alone.
CreateProtectedVideoWithBlur ==
    /\ Callable
    /\ module = "backend"
    /\ \E input \in {"empty", "frames"} :
          IF Binds(BlurVideoParams, 2, {"conf_lvl"})
          THEN /\ \E S \in SUBSET Tracks : blur_ids' = S /\ blurred_ids' = S
               /\ blur_counters' = EmptyDict
               /\ carried' = blurred_ids'
               /\ IF input = "empty"
                  THEN /\ RunLocals("raised")
                       /\ outcome' = [input |-> input, error |-> "none", file |-> "copy"]
                  ELSE /\ RunLocals("loop")
                       /\ outcome' = [input |-> input, error |-> "none", file |-> "writer"]
          ELSE /\ outcome' = [input |-> input, error |-> "none", file |-> "copy"]
               /\ UNCHANGED <<blurred_ids, blur_counters, pc, blur_ids, carried,
                              n, frame_buffer, new_ids, out, last_write, budget,
                              seen, first_qual, last_seen>>
    /\ UNCHANGED <<module, BUFFER_FRAMES, conf_lvl, render, extract, api>>

\* `for frame, result in results_data:` takes the next pair and appends it
NextFrame ==
    /\ pc = "loop"
    /\ n < MaxFrames(BUFFER_FRAMES)
    /\ \E result \in Results(BUFFER_FRAMES, conf_lvl, budget, seen) :
          /\ seen' = IF result.has_ids THEN MaxId(result.dets, 1, seen) ELSE seen
          /\ budget' = IF BUFFER_FRAMES <= MaxBuffer
                        THEN budget - Len(result.dets) ELSE budget
          /\ frame_buffer' = deque_append(frame_buffer,
                                [frame |-> NewFrame(n, result), result |-> result],
                                Capacity(BUFFER_FRAMES))
          /\ first_qual' = IF module \in ThresholdModules
                           THEN NoteQual(first_qual, result, n, conf_lvl)
                           ELSE first_qual
          /\ last_seen' = NoteSeen(last_seen, result, n)
    /\ n' = n + 1
    /\ new_ids' = {}
    /\ pc' = "process"
    /\ UNCHANGED <<module, BUFFER_FRAMES, blurred_ids, blur_counters,
                   conf_lvl, blur_ids, carried, out, last_write>>
    /\ UNCHANGED <<outcome, render, extract, api>>

\* new_ids = process_frame(frame, result, conf_lvl)
ProcessFrame ==
    /\ pc = "process"
    /\ module \in ThresholdModules
    /\ LET cur == frame_buffer[Len(frame_buffer)]
           st == process_frame(cur.frame, cur.result, conf_lvl,
                               blurred_ids, blur_counters)
       IN /\ blurred_ids' = st.blurred_ids
          /\ blur_counters' = st.blur_counters
          /\ new_ids' = st.new_ids
          /\ frame_buffer' = [frame_buffer EXCEPT ![Len(frame_buffer)].frame = st.frame]
    /\ pc' = "retro"
    /\ UNCHANGED <<module, BUFFER_FRAMES, conf_lvl, n, out, first_qual, last_seen, budget, seen,
                   blur_ids, carried, last_write>>
    /\ UNCHANGED <<outcome, render, extract, api>>

\* process_frame(frame, result, blurred_ids), backend
ProcessFrameCurated ==
    /\ pc = "process"
    /\ module = "backend"
    /\ LET cur == frame_buffer[Len(frame_buffer)]
       IN frame_buffer' = [frame_buffer EXCEPT ![Len(frame_buffer)].frame =
                              curated_process_frame(cur.frame, cur.result, blurred_ids)]
    /\ pc' = "counters"
    /\ UNCHANGED <<module, BUFFER_FRAMES, blurred_ids, blur_counters,
                   conf_lvl, n, new_ids, out, first_qual, last_seen, budget, seen,
                   blur_ids, carried, last_write>>
    /\ UNCHANGED <<outcome, render, extract, api>>

\* `if new_ids: for past_frame, past_result in frame_buffer: retro_blur(..)`
RetroBlur ==
    /\ pc = "retro"
    /\ frame_buffer' =
          IF new_ids # {}
          THEN [k \in 1..Len(frame_buffer) |->
                  IF k \in RetroTargets(frame_buffer)
                  THEN [frame_buffer[k] EXCEPT !.frame =
                          retro_blur(@, frame_buffer[k].result, new_ids)]
                  ELSE frame_buffer[k]]
          ELSE frame_buffer
    /\ pc' = "counters"
    /\ UNCHANGED <<module, BUFFER_FRAMES, blurred_ids, blur_counters,
                   conf_lvl, n, new_ids, out, first_qual, last_seen, budget, seen,
                   blur_ids, carried, last_write>>
    /\ UNCHANGED <<outcome, render, extract, api>>

UpdateCounters ==
    /\ pc = "counters"
    /\ blur_counters' = update_counters(blur_counters)
    /\ pc' = "write"
    /\ UNCHANGED <<module, BUFFER_FRAMES, blurred_ids, conf_lvl, n,
                   frame_buffer, new_ids, out, first_qual, last_seen, budget, seen,
                   blur_ids, carried, last_write>>
    /\ UNCHANGED <<outcome, render, extract, api>>

\* `if len(frame_buffer) == BUFFER_FRAMES: popleft(); out.write(oldest)`
WriteOldest ==
    /\ pc = "write"
    /\ IF AtCapacity(frame_buffer, Capacity(BUFFER_FRAMES))
       THEN /\ last_write' = Written(popleft(frame_buffer).oldest, blurred_ids)
            /\ out' = Append(out, Kept(last_write'))
            /\ frame_buffer' = popleft(frame_buffer).rest
       ELSE UNCHANGED <<out, last_write, frame_buffer>>
    /\ pc' = "loop"
    /\ UNCHANGED <<module, BUFFER_FRAMES, blurred_ids, blur_counters,
                   conf_lvl, n, new_ids, first_qual, last_seen, budget, seen,
                   blur_ids, carried>>
    /\ UNCHANGED <<outcome, render, extract, api>>

\* the input is exhausted: control reaches `while frame_buffer:`; the lists
\* of blur_video hold a frame at least (EmptyInput), the tracker's generator
\* of process_video may yield none
EndOfStream ==
    /\ pc = "loop"
    /\ n >= 1 \/ module = "detblurv2"
    /\ pc' = "flush"
    /\ UNCHANGED <<module, BUFFER_FRAMES, blurred_ids, blur_counters,
                   conf_lvl, n, frame_buffer, new_ids, out, first_qual, last_seen, budget, seen,
                   blur_ids, carried, last_write>>
    /\ UNCHANGED <<outcome, render, extract, api>>

\* one turn of `while frame_buffer: popleft(); out.write(oldest)`
Flush ==
    /\ pc = "flush"
    /\ frame_buffer # <<>>
    /\ last_write' = Written(popleft(frame_buffer).oldest, blurred_ids)
    /\ out' = Append(out, Kept(last_write'))
    /\ frame_buffer' = popleft(frame_buffer).rest
    /\ UNCHANGED <<module, BUFFER_FRAMES, blurred_ids, blur_counters, pc,
                   conf_lvl, n, new_ids, first_qual, last_seen, budget, seen,
                   blur_ids, carried>>
    /\ UNCHANGED <<outcome, render, extract, api>>

\* out.release() and return
Release ==
    /\ pc = "flush"
    /\ frame_buffer = <<>>
    /\ pc' = "done"
    /\ UNCHANGED <<module, BUFFER_FRAMES, blurred_ids, blur_counters,
                   conf_lvl, n, frame_buffer, new_ids, out, first_qual, last_seen, budget, seen,
                   blur_ids, carried, last_write>>
    /\ UNCHANGED <<outcome, render, extract, api>>

Next ==
    \/ EmptyInput
    \/ BlurVideo
    \/ BlurVideoCurated
    \/ CreateProtectedVideoWithBlur
    \/ ProcessVideo
    \/ NextFrame
    \/ ProcessFrame
    \/ ProcessFrameCurated
    \/ RetroBlur
    \/ UpdateCounters
    \/ WriteOldest
    \/ EndOfStream
    \/ Flush
    \/ Release

Spec == Init /\ [][Next]_vars

\* ---------------------------------------------------------------------
\* _extract_unique_tracks(results, fps, base_save_dir), backend/pipeline/extract.py
\* ---------------------------------------------------------------------
\* The list `results` is taken one result at a time, as the for loop takes
\* it; extract.results is the part of the list consumed so far. A record of
\* unique_by_track is abstracted to its track_id, its first_seen_frame and
\* the place (frame, index in the frame) of the detection its bbox_xyxy and
\* crop were taken from.

\* `track_id in unique_by_track`; the dict is kept as the sequence of its
\* values in insertion order
HasKey(unique, track_id) == \E k \in 1..Len(unique) : unique[k].track_id = track_id

\* mutant: the record is built from the last box of the frame
TrackRecordLast(track_id, frame_index, result, i) ==
    [track_id |-> track_id, first_seen_frame |-> frame_index,
     bbox_from |-> <<frame_index, Len(result.dets)>>]

\* unique_by_track[track_id] = {"track_id": .., "first_seen_frame":
\* frame_index, "bbox_xyxy": xyxy_tensor[i], "crop_path": crop of that box}
TrackRecord(track_id, frame_index, result, i) ==
    [track_id |-> track_id, first_seen_frame |-> frame_index,
     bbox_from |-> <<frame_index, i>>]

\* mutant: a track already recorded is recorded again
AlreadyRecordedNever(unique, track_id) == FALSE

\* `if track_id in unique_by_track: continue`
AlreadyRecorded(unique, track_id) == HasKey(unique, track_id)

\* dict assignment: a new key goes last, an existing key keeps its place
SetItem(unique, rec) ==
    IF HasKey(unique, rec.track_id)
    THEN [k \in 1..Len(unique) |->
            IF unique[k].track_id = rec.track_id THEN rec ELSE unique[k]]
    ELSE Append(unique, rec)

\* `for i, track_id in enumerate(ids):`
RECURSIVE extract_ids_loop(_, _, _, _)
extract_ids_loop(i, result, frame_index, unique) ==
    IF i > Len(result.dets) THEN unique
    ELSE extract_ids_loop(i + 1, result, frame_index,
            IF AlreadyRecorded(unique, result.dets[i].id)
            THEN unique
            ELSE SetItem(unique, TrackRecord(result.dets[i].id, frame_index, result, i)))

\* one turn of `for frame_index, result in enumerate(results):`
extract_frame(result, frame_index, unique) ==
    IF ~result.has_ids THEN unique
    ELSE extract_ids_loop(1, result, frame_index, unique)

\* sorted(.., key=lambda x: x["first_seen_frame"]): stable, ascending
RECURSIVE InsertByFrame(_, _)
InsertByFrame(sorted, rec) ==
    IF sorted = <<>> THEN <<rec>>
    ELSE IF sorted[Len(sorted)].first_seen_frame <= rec.first_seen_frame
         THEN Append(sorted, rec)
         ELSE Append(InsertByFrame(SubSeq(sorted, 1, Len(sorted) - 1), rec),
                     sorted[Len(sorted)])
RECURSIVE SortedByFrame(_)
SortedByFrame(recs) ==
    IF recs = <<>> THEN <<>>
    ELSE InsertByFrame(SortedByFrame(SubSeq(recs, 1, Len(recs) - 1)), recs[Len(recs)])

\* the results model.track may return for one frame: the tracker gives the
\* boxes of one frame distinct ids
DistinctIds(dets) ==
    \A i, j \in 1..Len(dets) : dets[i].id = dets[j].id => i = j
ExtractResults(k, highest) ==
    {r \in TrackedResults(Confs(0),
                          IF k < MaxExtractDets THEN k ELSE MaxExtractDets,
                          highest) : DistinctIds(r.dets)}
        \cup UntrackedResults(UntrackedConfs(0), k)

ExtractStart ==
    [pc |-> "loop", results |-> <<>>, unique_by_track |-> <<>>,
     returned |-> <<>>, budget |-> MaxExtractDetections, seen |-> 0]

EngineIdle ==
    /\ module = "backend"
    /\ BUFFER_FRAMES = DefaultBufferFrames
    /\ blurred_ids = {}
    /\ blur_counters = EmptyDict
    /\ pc = "idle"
    /\ conf_lvl = 0
    /\ blur_ids = {}
    /\ carried = {}
    /\ n = 0
    /\ frame_buffer = <<>>
    /\ new_ids = {}
    /\ out = <<>>
    /\ last_write = NoWrite
    /\ budget = 0
    /\ seen = 0
    /\ first_qual = NoQual
    /\ last_seen = NoQual
    /\ outcome = NoOutcome

engine == <<module, BUFFER_FRAMES, blurred_ids, blur_counters, pc, conf_lvl,
            blur_ids, carried, last_write, n, frame_buffer, new_ids, out,
            budget, seen, first_qual, last_seen, outcome>>

ExtractInit ==
    /\ EngineIdle
    /\ render = RenderIdle
    /\ extract = ExtractStart
    /\ ApiIdle

\* the loop takes the next result of the list
ExtractFrame ==
    /\ extract.pc = "loop"
    /\ Len(extract.results) < MaxExtractFrames
    /\ \E result \in ExtractResults(extract.budget, extract.seen) :
          extract' = [extract EXCEPT
              !.results = Append(@, result),
              !.unique_by_track =
                  extract_frame(result, Len(extract.results), @),
              !.budget = @ - Len(result.dets),
              !.seen = IF result.has_ids THEN MaxId(result.dets, 1, @) ELSE @]
    /\ UNCHANGED <<engine, render, api>>

\* the list is exhausted: `return sorted(unique_by_track.values(), ..)`
ExtractReturn ==
    /\ extract.pc = "loop"
    /\ extract' = [extract EXCEPT
          !.pc = "done",
          !.returned = SortedByFrame(extract.unique_by_track)]
    /\ UNCHANGED <<engine, render, api>>

ExtractNext ==
    \/ ExtractFrame
    \/ ExtractReturn

ExtractSpec == ExtractInit /\ [][ExtractNext]_vars

\* ---------------------------------------------------------------------
\* apply_blur(frame, box) on the pixels of a frame
\* ---------------------------------------------------------------------
\* A frame is [w, h, px] with px[<<y, x>>] the value of pixel (x, y),
\* 0 <= x < w, 0 <= y < h (one channel); a box is <<x1, y1, x2, y2>>, the
\* integers process_frame gets from `.astype(int)`.

\* cv2.GaussianBlur(roi, (51, 51), 30): the 51 taps exp(-d*d / (2*30*30)),
\* d = -25..25, normalised and held in fixed point (here the taps for
\* d = 0..25, summing to 2503 over the whole kernel)
GaussianHalf ==
    <<55, 55, 55, 55, 54, 54, 54, 54, 53, 53, 52, 51, 51,
      50, 49, 49, 48, 47, 46, 45, 44, 43, 42, 41, 40, 39>>
KernelRadius == (KernelSize - 1) \div 2
Tap(d) == GaussianHalf[(IF d < 0 THEN -d ELSE d) + 1]
RECURSIVE SumTaps(_)
SumTaps(d) == IF d > KernelRadius THEN 0 ELSE Tap(d) + SumTaps(d + 1)
KernelSum == SumTaps(-KernelRadius)

\* BORDER_REFLECT_101, the default border of GaussianBlur: index i of a
\* line of len pixels read at gfedcb|abcdefgh|gfedcba
Reflect101(i, len) ==
    IF len = 1 THEN 0
    ELSE LET period == 2 * (len - 1)
             m == (i + KernelSize * period) % period
         IN IF m < len THEN m ELSE period - m

\* the weight pixel j of a line of len pixels has in the blurred pixel i:
\* the taps that land on j, directly or reflected
RECURSIVE FoldTaps(_, _, _, _)
FoldTaps(d, i, j, len) ==
    IF d > KernelRadius THEN 0
    ELSE (IF Reflect101(i + d, len) = j THEN Tap(d) ELSE 0)
            + FoldTaps(d + 1, i, j, len)
MaxSide == IF MaxWidth > MaxHeight THEN MaxWidth ELSE MaxHeight
Folded ==
    [len \in 1..MaxSide |->
        [i \in 0..(len - 1) |->
            [j \in 0..(len - 1) |-> FoldTaps(-KernelRadius, i, j, len)]]]

\* the blurred value of pixel <<y, x>> of the roi  ys \X xs  of px: the
\* separable kernel applied along both axes, rounded once
RECURSIVE WeightedSum(_, _, _, _, _, _)
WeightedSum(k, px, ys, xs, y, x) ==
    LET h == Cardinality(ys)
        w == Cardinality(xs)
        y0 == CHOOSE v \in ys : \A u \in ys : v <= u
        x0 == CHOOSE v \in xs : \A u \in xs : v <= u
        yy == k \div w
        xx == k % w
    IN IF k >= h * w THEN 0
       ELSE Folded[h][y - y0][yy] * Folded[w][x - x0][xx] * px[<<y0 + yy, x0 + xx>>]
                + WeightedSum(k + 1, px, ys, xs, y, x)
GaussianBlur(px, ys, xs) ==
    [p \in ys \X xs |->
        (WeightedSum(0, px, ys, xs, p[1], p[2]) + (KernelSum * KernelSum) \div 2)
            \div (KernelSum * KernelSum)]

\* numpy's reading of one bound of a slice a:b of an axis of len entries: a
\* negative bound counts from the end, and the result is cut to 0..len
SliceBound(v, len) ==
    IF v < 0 THEN (IF v + len < 0 THEN 0 ELSE v + len)
    ELSE (IF v > len THEN len ELSE v)

\* the indices frame[a:b] selects
SliceRange(a, b, len) == SliceBound(a, len)..(SliceBound(b, len) - 1)

\* mutant: the assignment replaces the frame, zero outside the roi
WriteBackClearing(px, blurred) ==
    [p \in DOMAIN px |-> IF p \in DOMAIN blurred THEN blurred[p] ELSE 0]

\* `frame[y1:y2, x1:x2] = blurred_roi`
WriteBack(px, blurred) ==
    [p \in DOMAIN px |-> IF p \in DOMAIN blurred THEN blurred[p] ELSE px[p]]

\* roi = frame[y1:y2, x1:x2]
Roi(frame, box) ==
    [ys |-> SliceRange(box[2], box[4], frame.h),
     xs |-> SliceRange(box[1], box[3], frame.w)]

\* apply_blur(frame, box): the frame after the call and the pixels assigned
apply_blur_pixels(frame, box) ==
    LET roi == Roi(frame, box)
    IN IF roi.ys \X roi.xs # {}
       THEN [frame |-> [frame EXCEPT !.px =
                          WriteBack(@, GaussianBlur(frame.px, roi.ys, roi.xs))],
             written |-> roi.ys \X roi.xs]
       ELSE [frame |-> frame, written |-> {}]

\* frames of every size up to MaxWidth x MaxHeight, white (255) in the
\* top-left pixel or in the last column, black elsewhere
Image(w, h, kind) ==
    [w |-> w, h |-> h,
     px |-> [p \in (0..(h - 1)) \X (0..(w - 1)) |->
                IF kind = "corner"
                THEN (IF p = <<0, 0>> THEN 255 ELSE 0)
                ELSE (IF p[2] = w - 1 THEN 255 ELSE 0)]]
Frames ==
    {Image(w, h, kind) : w \in 1..MaxWidth, h \in 1..MaxHeight,
                         kind \in {"corner", "column"}}
\* boxes with every bound from beyond the frame on one side to beyond it on
\* the other
Boxes ==
    {<<x1, y1, x2, y2>> : x1 \in (-MaxWidth)..(MaxWidth + 1),
                          y1 \in (-MaxHeight)..(MaxHeight + 1),
                          x2 \in (-MaxWidth)..(MaxWidth + 1),
                          y2 \in (-MaxHeight)..(MaxHeight + 1)}

RenderInit ==
    /\ EngineIdle
    /\ extract = ExtractIdle
    /\ ApiIdle
    /\ render \in {[pc |-> "ready", frame |-> f, box |-> b, orig |-> f.px,
                     once |-> f.px, written |-> {}, first_written |-> {}] :
                        f \in Frames, b \in Boxes}

\* apply_blur(frame, box)
ApplyBlur ==
    /\ render.pc = "ready"
    /\ LET r == apply_blur_pixels(render.frame, render.box)
       IN render' = [render EXCEPT !.pc = "once", !.frame = r.frame,
                                   !.once = r.frame.px, !.written = r.written,
                                   !.first_written = r.written]
    /\ UNCHANGED <<engine, extract, api>>

\* apply_blur(frame, box) once more, on the frame the first call left
ApplyBlurAgain ==
    /\ render.pc = "once"
    /\ LET r == apply_blur_pixels(render.frame, render.box)
       IN render' = [render EXCEPT !.pc = "twice", !.frame = r.frame,
                                   !.written = r.written]
    /\ UNCHANGED <<engine, extract, api>>

RenderNext ==
    \/ ApplyBlur
    \/ ApplyBlurAgain

RenderSpec == RenderInit /\ [][RenderNext]_vars

\* ---------------------------------------------------------------------
\* Properties
\* ---------------------------------------------------------------------
Running == ~Callable
Current == frame_buffer[Len(frame_buffer)]
Wrote == last_write.idx # -1
BareFrames(t) == {out[k].idx : k \in {j \in 1..Len(out) : t \in out[j].bare}}
WrittenFrames == {out[k].idx : k \in 1..Len(out)}
\* the frames an activation on frame N is said to reach back to
Window(N) == (N - BUFFER_FRAMES + 1)..N
\* frame N has been taken from the input and its iteration is not over
Processing(N) == n - 1 = N /\ pc \in {"process", "retro", "counters", "write"}

\* C1: in the confidence-triggered modules no frame is handed to out.write
\* with a detection that no apply_blur call has covered while its track is
\* in blurred_ids.
C1_LeakProof ==
    (module \in ThresholdModules /\ Wrote)
        => last_write.bare \cap last_write.active = {}

\* a frame is written whose track met the threshold only on a later frame,
\* so that its blur came from the retroactive pass
C1_Witness ==
    /\ module = "yolo"
    /\ \E t \in Tracks :
          /\ t \in last_write.tracks \cap last_write.active
          /\ first_qual[t] > last_write.idx

\* C2: when a track first meets the threshold on frame N, no frame of
\* N-BUFFER_FRAMES+1..N is written with a detection of the track uncovered,
\* and none of them is written before the iteration of frame N is over.
C2_LateActivation ==
    module \in ThresholdModules =>
        \A t \in Tracks :
            LET N == first_qual[t]
            IN N # -1 =>
                /\ \A k \in 1..Len(out) :
                      out[k].idx \in Window(N) => t \notin out[k].bare
                /\ Processing(N) =>
                      \A k \in 1..Len(out) : out[k].idx \notin Window(N)

\* the six-frame buffer: track 1 is below the threshold on frames 0..4, meets
\* it on frame 5, and the run has written frames 0..5, all covered
C2_Witness ==
    /\ module = "yolo"
    /\ BUFFER_FRAMES = 6
    /\ first_qual[1] = 5
    /\ pc = "done"
    /\ (0..5) \subseteq WrittenFrames
    /\ BareFrames(1) = {}

\* the boundary scenario: a ten-frame buffer, track 1 detected on every
\* frame, first meeting the threshold on frame 12, in a run that starts with
\* the track not in blurred_ids
C3_Scenario ==
    /\ module \in ThresholdModules
    /\ 1 \notin carried
    /\ BUFFER_FRAMES = DefaultBufferFrames
    /\ first_qual[1] = 12
    /\ pc = "done"

\* C3 as stated: the frames written with the track unredacted are exactly
\* frames 0 and 1.
C3_Original == C3_Scenario => BareFrames(1) = {0, 1}

\* C3 (amended): the frames written with the track unredacted are exactly
\* frames 0, 1 and 2; frames 3 through 12 are written with the track blurred.
C3_Boundary ==
    C3_Scenario => BareFrames(1) = {0, 1, 2} /\ (0..12) \subseteq WrittenFrames

C3_Witness == C3_Scenario /\ module = "yolo"

\* C4: in the backend module blurred_ids is the blur_ids argument in every
\* state of a run, and on every processed frame a detection has been passed
\* to apply_blur exactly when its track id is in blur_ids.
C4_Curated ==
    (module = "backend" /\ pc # "idle") =>
        /\ blurred_ids = blur_ids
        /\ Wrote => /\ last_write.covered = last_write.tracks \cap blur_ids
                    /\ last_write.bare = last_write.tracks \ blur_ids
        /\ \A k \in 1..Len(frame_buffer) :
              (pc = "process" /\ k = Len(frame_buffer)) \/
              LET e == frame_buffer[k]
              IN \A i \in 1..Len(e.result.dets) :
                    e.frame.calls[i] > 0 <=>
                        (e.result.has_ids /\ e.result.dets[i].id \in blur_ids)

\* a written frame carries a curated track, blurred, next to one that is not
\* curated, left alone
C4_Witness ==
    /\ module = "backend"
    /\ last_write.covered # {}
    /\ last_write.bare # {}

\* C5: within a run of a confidence-triggered module no step removes a track
\* from blurred_ids, and process_frame covers every detection whose track was
\* in blurred_ids when the frame arrived.
C5_Monotonic ==
    [][(module \in ThresholdModules /\ Running) =>
          /\ blurred_ids \subseteq blurred_ids'
          /\ (pc = "process" /\ Current.result.has_ids) =>
                \A i \in 1..Len(Current.result.dets) :
                    Current.result.dets[i].id \in blurred_ids =>
                        frame_buffer'[Len(frame_buffer)].frame.calls[i] > 0]_vars

\* process_frame has covered a sub-threshold detection of a track activated
\* on an earlier frame, after the track's counter has run down to 0
C5_Witness ==
    /\ module = "yolo"
    /\ pc = "retro"
    /\ Current.result.has_ids
    /\ \E i \in 1..Len(Current.result.dets) :
          LET t == Current.result.dets[i].id
          IN /\ Current.result.dets[i].conf < conf_lvl
             /\ first_qual[t] # -1
             /\ first_qual[t] < n - 1
             /\ t \in blurred_ids
             /\ blur_counters[t] = 0
             /\ Current.frame.calls[i] > 0

\* C6: in blur_video of yolo-clean, blurred_ids holds exactly the tracks that
\* have had a detection of confidence >= conf_lvl on a processed frame, and
\* process_frame returns in new_ids exactly the tracks whose first such
\* detection is on the frame it was given.
C6_Trigger ==
    (module = "yolo" /\ Running) =>
        /\ blurred_ids =
              {t \in Tracks : /\ first_qual[t] # -1
                              /\ ~(pc = "process" /\ first_qual[t] = n - 1)}
        /\ pc \in {"retro", "counters", "write"} =>
              new_ids = {t \in Tracks : first_qual[t] = n - 1}

\* process_frame returns a track whose detection sits exactly on the
\* threshold, on a frame that is not the first, after an earlier detection of
\* the track below the threshold
C6_Witness ==
    /\ module = "yolo"
    /\ pc = "retro"
    /\ n > 1
    /\ \E i \in 1..Len(Current.result.dets) :
          /\ Current.result.has_ids
          /\ Current.result.dets[i].conf = conf_lvl
          /\ Current.result.dets[i].id \in new_ids
          /\ \E k \in 1..(Len(frame_buffer) - 1) :
                Detected(frame_buffer[k].result, Current.result.dets[i].id)

\* C7: frame_buffer never holds more than BUFFER_FRAMES frames.
C7_Capacity == Len(frame_buffer) <= BUFFER_FRAMES

\* the ten-frame buffer is full on a stream longer than the buffer
C7_Witness ==
    /\ BUFFER_FRAMES = DefaultBufferFrames
    /\ Len(frame_buffer) = BUFFER_FRAMES
    /\ n > BUFFER_FRAMES

\* C8: the frames handed to out.write are in strictly increasing input
\* index, across the in-stream pops and the final flush.
C8_Fifo ==
    \A k \in 1..(Len(out) - 1) : out[k].idx < out[k + 1].idx

\* a finished run that wrote frames both from the loop and from the flush
C8_Witness ==
    /\ pc = "done"
    /\ BUFFER_FRAMES > 1
    /\ n > BUFFER_FRAMES
    /\ Len(out) = n

\* C9: when the entry point returns on a non-empty stream the buffer is
\* empty and the sink has received every input frame exactly once, in order.
C9_FlushComplete ==
    (pc = "done" /\ n >= 1) =>
        /\ frame_buffer = <<>>
        /\ Len(out) = n
        /\ \A k \in 1..Len(out) : out[k].idx = k - 1

\* a finished run on a stream shorter than the buffer
C9_Witness ==
    /\ pc = "done"
    /\ n > 1
    /\ n < BUFFER_FRAMES
    /\ Len(out) = n

\* C10 as stated: a track whose first qualifying detection is on frame N and
\* that is not detected on any later frame is blurred on the frames
\* N+1..N+BUFFER_FRAMES and on no frame after them. (apply_blur is only ever
\* called with a box of the frame's own result, so a frame is blurred for a
\* track exactly when the track is in the covered set of the write.)
C10_PersistenceDecay ==
    (module = "yolo" /\ Wrote) =>
        \A t \in Tracks :
            LET N == first_qual[t]
            IN (N # -1 /\ last_seen[t] = N /\ last_write.idx > N) =>
                  (t \in last_write.covered <=>
                      last_write.idx <= N + BUFFER_FRAMES)

\* C13: a frame whose result carries no track ids is no error: process_frame
\* returns an empty new_ids, draws nothing on the frame and leaves
\* blurred_ids as it was; the frame stays in the buffer and is handed to
\* out.write untouched, in its input position.
C13_Untracked ==
    [][/\ (pc = "process" /\ ~Current.result.has_ids) =>
             /\ pc' \in {"retro", "counters"}
             /\ new_ids' = {}
             /\ blurred_ids' = blurred_ids
             /\ frame_buffer' = frame_buffer
       /\ (/\ pc \in {"write", "flush"}
           /\ frame_buffer # <<>>
           /\ ~Head(frame_buffer).result.has_ids
           /\ out' # out) =>
             /\ \A i \in 1..Len(Head(frame_buffer).result.dets) :
                    Head(frame_buffer).frame.calls[i] = 0
             /\ Head(frame_buffer).frame.idx = Len(out)
             /\ out' = Append(out, [idx |-> Len(out), bare |-> {}])]_vars

\* process_frame has returned from a frame that carries a box but no track
\* ids, on a later frame of a run in which a track is already activated
C13_Witness ==
    /\ module = "yolo"
    /\ pc = "retro"
    /\ n > 1
    /\ blurred_ids # {}
    /\ ~Current.result.has_ids
    /\ Len(Current.result.dets) = 1
    /\ Current.frame.calls[1] = 0

\* C16 as stated: every run starts with an empty activation set (in the
\* backend: the blur_ids it was given) and empty counters, and a frame is
\* written with a track blurred only if a detection of this run's own input
\* activated the track.
C16_RunIndependence ==
    /\ (pc = "loop" /\ n = 0) =>
          /\ blur_counters = EmptyDict
          /\ blurred_ids = IF module = "backend" THEN blur_ids ELSE {}
    /\ (module \in ThresholdModules /\ Running /\ Wrote) =>
          last_write.covered \subseteq {t \in Tracks : first_qual[t] # -1}

\* C20 as stated: after process_frame has handled a frame with a detection
\* of track t of confidence >= conf_lvl, blur_counters[t] is BUFFER_FRAMES
\* until that frame's update_counters call.
C20_PersistenceReset ==
    (module \in ThresholdModules /\ pc \in {"retro", "counters"}) =>
        \A t \in Tracks :
            Qualifies(Current.result, t, conf_lvl) =>
                Get(blur_counters, t, 0) = BUFFER_FRAMES

\* C14 as stated: the file create_protected_video_with_blur returns is the
\* one blur_video's writer produced; the protected path never holds a copy
\* of the original video.
C14_FailClosed == outcome.file # "copy"

\* C15 as stated: on an empty results_data the call ends in a dedicated
\* "no input" error and no output video exists.
C15_NoInput ==
    outcome.input = "empty" =>
        /\ outcome.error = "NoInput"
        /\ outcome.file = "none"

\* ---- _extract_unique_tracks ----
\* the detections of track t in the consumed results, as <<frame, index>>
DetectionsOf(t) ==
    {<<f, i>> \in (0..(Len(extract.results) - 1)) \X (1..MaxExtractDets) :
        /\ extract.results[f + 1].has_ids
        /\ i <= Len(extract.results[f + 1].dets)
        /\ extract.results[f + 1].dets[i].id = t}
ConfAt(d) == extract.results[d[1] + 1].dets[d[2]].conf
FirstFrameOf(t) ==
    CHOOSE f \in {d[1] : d \in DetectionsOf(t)} :
        \A d \in DetectionsOf(t) : f <= d[1]
Returned == extract.returned
RecordsOf(t) == {k \in 1..Len(Returned) : Returned[k].track_id = t}

\* C17: _extract_unique_tracks returns exactly one record per track id that
\* appears on a frame carrying ids; its first_seen_frame is the smallest
\* index of a frame on which the track appears; the list is in
\* non-decreasing first_seen_frame.
C17_Dedup ==
    extract.pc = "done" =>
        /\ \A t \in Tracks :
              Cardinality(RecordsOf(t)) = IF DetectionsOf(t) # {} THEN 1 ELSE 0
        /\ \A k \in 1..Len(Returned) :
              /\ Returned[k].track_id \in Tracks
              /\ Returned[k].first_seen_frame = FirstFrameOf(Returned[k].track_id)
        /\ \A k \in 1..(Len(Returned) - 1) :
              Returned[k].first_seen_frame <= Returned[k + 1].first_seen_frame

\* two tracks, the second first seen on a later frame than the first, both
\* seen again afterwards, next to a frame without ids
C17_Witness ==
    /\ extract.pc = "done"
    /\ Len(Returned) = 2
    /\ Returned[1].first_seen_frame < Returned[2].first_seen_frame
    /\ \E k \in 1..2 :
          Cardinality({d[1] : d \in DetectionsOf(Returned[k].track_id)}) > 1
    /\ \E f \in 1..Len(extract.results) : ~extract.results[f].has_ids

\* C18 as stated: the record of a track is taken from a detection of the
\* track's maximum confidence, the earliest frame among those that tie.
C18_Original ==
    extract.pc = "done" =>
        \A k \in 1..Len(Returned) :
            LET t == Returned[k].track_id
                best == {d \in DetectionsOf(t) :
                            \A e \in DetectionsOf(t) : ConfAt(e) <= ConfAt(d)}
            IN /\ Returned[k].bbox_from \in best
               /\ \A d \in best : Returned[k].bbox_from[1] <= d[1]

\* C18 (amended): the record of a track is taken from the track's first
\* detection, the first box with its id on the earliest frame on which it
\* appears, whatever the confidences of its detections.
C18_FirstInstance ==
    extract.pc = "done" =>
        \A k \in 1..Len(Returned) :
            LET t == Returned[k].track_id
                src == Returned[k].bbox_from
            IN /\ src \in DetectionsOf(t)
               /\ \A d \in DetectionsOf(t) :
                     src[1] < d[1] \/ (src[1] = d[1] /\ src[2] <= d[2])

\* a track whose later detection has the higher confidence, and whose
\* first frame holds another box before its own
C18_Witness ==
    /\ extract.pc = "done"
    /\ \E k \in 1..Len(Returned) :
          /\ Returned[k].bbox_from[2] > 1
          /\ \E d \in DetectionsOf(Returned[k].track_id) :
                ConfAt(d) > ConfAt(Returned[k].bbox_from)

\* ---- apply_blur on pixels ----
\* the pixels of the frame inside the box
Clamped(frame, box) ==
    {p \in DOMAIN frame.px : /\ box[2] <= p[1] /\ p[1] < box[4]
                             /\ box[1] <= p[2] /\ p[2] < box[3]}
\* the box reaches over an edge of the frame and has pixels inside it
PartlyInside(frame, box) ==
    /\ Clamped(frame, box) # {}
    /\ \/ box[1] < 0
       \/ box[2] < 0
       \/ box[3] > frame.w
       \/ box[4] > frame.h
\* the box lies beyond one side of the frame, or has no area
Degenerate(frame, box) ==
    /\ box[1] <= box[3]
    /\ box[2] <= box[4]
    /\ \/ box[1] = box[3]
       \/ box[2] = box[4]
       \/ box[3] <= 0
       \/ box[4] <= 0
       \/ box[1] >= frame.w
       \/ box[2] >= frame.h

\* C11 as stated: for a box that overlaps the frame only partly, apply_blur
\* assigns exactly the pixels of the box inside the frame and changes no
\* other pixel.
C11_Clamping ==
    (render.pc = "once" /\ PartlyInside(render.frame, render.box)) =>
        /\ render.written = Clamped(render.frame, render.box)
        /\ \A p \in DOMAIN render.orig :
              p \notin Clamped(render.frame, render.box) =>
                  render.frame.px[p] = render.orig[p]

\* C12 as stated: for a box entirely outside the frame or of zero area,
\* apply_blur changes no pixel.
C12_Degenerate ==
    (render.pc = "once" /\ Degenerate(render.frame, render.box)) =>
        render.frame.px = render.orig

\* C19 as stated: a second apply_blur on the same box leaves the frame as
\* the first left it.
C19_Original == render.pc = "twice" => render.frame.px = render.once

\* C19 (amended): a second apply_blur on the same box assigns the same
\* pixels as the first and leaves every other pixel as the first left it;
\* the pixels it assigns are blurred again, each staying within the range
\* of values the first call left in the region.
C19_Reblur ==
    render.pc = "twice" =>
        /\ render.written = render.first_written
        /\ \A p \in DOMAIN render.once :
              IF p \in render.written
              THEN /\ \E q \in render.written : render.once[q] <= render.frame.px[p]
                   /\ \E q \in render.written : render.once[q] >= render.frame.px[p]
              ELSE /\ render.frame.px[p] = render.once[p]
                   /\ render.frame.px[p] = render.orig[p]

\* the second call has changed pixels the first call had already blurred,
\* on a frame that has pixels outside the region
C19_Witness ==
    /\ render.pc = "twice"
    /\ render.once # render.orig
    /\ render.frame.px # render.once
    /\ render.written # DOMAIN render.orig

\* ---- the protect endpoint of backend/main.py ----
MaxVideos == 1
MaxRequests == 2
MaxPiiFrames == 1

\* the values uuid.uuid4() hands out
VideoIds == 1..MaxVideos
\* request.piiFrames, after the user's filtering
PiiFrames == SUBSET (1..MaxPiiFrames)

\* UPLOAD_DIR / f"{video_id}_{video.filename}"
UploadPath(v) == [dir |-> "uploads", prefix |-> "", name |-> v]
\* PROCESSED_DIR / f"PROTECTED_{original_name}"
ProtectedPath(original_path) ==
    [dir |-> "processed", prefix |-> "PROTECTED_", name |-> original_path.name]
\* PROCESSED_DIR / f"<lock>_PROTECTED_{original_name}"
MockProtectedPath(original_path) ==
    [dir |-> "processed", prefix |-> "LOCK_PROTECTED_", name |-> original_path.name]

\* mutant: the existence test always passes
path_exists_always(path, fs) == TRUE

\* os.path.exists(path)
path_exists(path, fs) == path \in fs

\* create_mock_protected_video: shutil.copy2(original_path, protected_path)
\* inside `try`, `except Exception` re-raised as Exception; copy2 raises when
\* the source is missing or the target cannot be written
create_mock_protected_video(original_path, fs, writable) ==
    IF path_exists(original_path, fs) /\ writable
    THEN [error |-> "none", path |-> MockProtectedPath(original_path),
          files |-> fs \cup {MockProtectedPath(original_path)}]
    ELSE [error |-> "Exception", path |-> MockProtectedPath(original_path),
          files |-> fs]

\* create_protected_video_with_blur: detect_video then
\* blur_video(results_data, str(protected_path), conf_lvl=0.7) inside `try`;
\* any exception of either falls back to create_mock_protected_video
create_protected_video_with_blur(original_path, fs, detected, writable) ==
    IF detected /\ Binds(BlurVideoParams, 2, {"conf_lvl"})
    THEN [error |-> "none", path |-> ProtectedPath(original_path),
          files |-> fs \cup {ProtectedPath(original_path)}]
    ELSE create_mock_protected_video(original_path, fs, writable)

\* a request the server has not begun to handle
NewRequest ==
    [pc |-> "new", videoId |-> 0, piiFrames |-> {},
     original_path |-> UploadPath(0), status |-> 0]

\* the keys the protect endpoint adds to an entry
ProtectedKeys == {"protected_path", "protected_pii", "protection_time"}

ApiInit ==
    /\ EngineIdle
    /\ render = RenderIdle
    /\ extract = ExtractIdle
    /\ video_storage = EmptyDict
    /\ files = {}
    /\ issued = {}
    /\ requests = [r \in 1..MaxRequests |-> NewRequest]
    /\ clock = 0

\* upload_and_analyze_video: a fresh uuid4, the file saved under uploads/
\* (a failure to save ends the request with 500 before any entry is made),
\* then `video_storage[video_id] = {...}` with the frames it has extracted
Upload(v) ==
    /\ v \in VideoIds \ issued
    /\ issued' = issued \cup {v}
    /\ \E saved \in BOOLEAN :
          IF saved
          THEN /\ files' = files \cup {UploadPath(v)}
               /\ video_storage' =
                     Put(video_storage, v,
                         [original_path |-> UploadPath(v),
                          pii_frames |-> 1..MaxPiiFrames,
                          upload_time |-> clock])
               /\ clock' = clock + 1
          ELSE UNCHANGED <<files, video_storage, clock>>
    /\ UNCHANGED <<requests, engine, render, extract>>

\* the environment removes an uploaded file
RemoveOriginal(path) ==
    /\ path \in files
    /\ path.dir = "uploads"
    /\ files' = files \ {path}
    /\ UNCHANGED <<video_storage, issued, requests, clock, engine, render, extract>>

\* create_protected_video up to `await asyncio.sleep(3)`: the two 404 exits
ProtectCheck(r) ==
    /\ requests[r].pc = "new"
    /\ \E v \in VideoIds, pii \in PiiFrames :
          requests' =
              [requests EXCEPT ![r] =
                  IF v \notin DOMAIN video_storage
                  THEN [@ EXCEPT !.pc = "done", !.videoId = v,
                                 !.piiFrames = pii, !.status = 404]
                  ELSE IF ~path_exists(video_storage[v].original_path, files)
                  THEN [@ EXCEPT !.pc = "done", !.videoId = v,
                                 !.piiFrames = pii, !.status = 404]
                  ELSE [@ EXCEPT !.pc = "sleep", !.videoId = v,
                                 !.piiFrames = pii,
                                 !.original_path = video_storage[v].original_path]]
    /\ UNCHANGED <<video_storage, files, issued, clock, engine, render, extract>>

\* create_protected_video after the sleep: the protected file is made, an
\* exception ends the request with 500, otherwise the entry gets its three
\* fields and the response is 200
ProtectFinish(r) ==
    /\ requests[r].pc = "sleep"
    /\ \E detected \in BOOLEAN, writable \in BOOLEAN :
          LET made == create_protected_video_with_blur(
                          requests[r].original_path, files, detected, writable)
              v == requests[r].videoId
          IN IF made.error # "none"
             THEN /\ requests' = [requests EXCEPT ![r].pc = "done", ![r].status = 500]
                  /\ UNCHANGED <<video_storage, files, clock>>
             ELSE /\ files' = made.files
                  /\ video_storage' =
                        [video_storage EXCEPT ![v] =
                            Put(Put(Put(@, "protected_path", made.path),
                                    "protected_pii", requests[r].piiFrames),
                                "protection_time", clock)]
                  /\ clock' = clock + 1
                  /\ requests' = [requests EXCEPT ![r].pc = "done", ![r].status = 200]
    /\ UNCHANGED <<issued, engine, render, extract>>

ApiNext ==
    \/ \E v \in VideoIds : Upload(v)
    \/ \E path \in files : RemoveOriginal(path)
    \/ \E r \in DOMAIN requests : ProtectCheck(r)
    \/ \E r \in DOMAIN requests : ProtectFinish(r)

ApiSpec == ApiInit /\ [][ApiNext]_vars

\* ---- counters, retroactive pass, exit from the buffer ----
\* C21: update_counters lowers every positive counter by exactly one, never
\* below 0, adds or removes no key and leaves blurred_ids alone; a detection
\* of a track in blurred_ids whose counter is 0 is still blurred by
\* process_frame.
DecayStep ==
    module \in ThresholdModules =>
        /\ pc = "counters" =>
              /\ blurred_ids' = blurred_ids
              /\ DOMAIN blur_counters' = DOMAIN blur_counters
              /\ \A t \in DOMAIN blur_counters :
                    /\ blur_counters'[t] >= 0
                    /\ blur_counters'[t] =
                          IF blur_counters[t] > 0 THEN blur_counters[t] - 1 ELSE 0
        /\ (pc = "process" /\ Current.result.has_ids) =>
              \A i \in 1..Len(Current.result.dets) :
                  (/\ Current.result.dets[i].id \in blurred_ids
                   /\ Get(blur_counters, Current.result.dets[i].id, 0) = 0) =>
                      frame_buffer'[Len(frame_buffer)].frame.calls[i] > 0
C21_DecayKeepsActive == [][DecayStep]_vars

\* update_counters has found a counter at 0 and left it there, and the
\* track's detection on that frame was blurred
C21_Witness ==
    /\ module = "yolo"
    /\ BUFFER_FRAMES = 2
    /\ pc = "write"
    /\ n >= 4
    /\ \E i \in 1..Len(Current.result.dets) :
          /\ Current.result.has_ids
          /\ Current.result.dets[i].id \in blurred_ids
          /\ first_qual[Current.result.dets[i].id] = 0
          /\ blur_counters[Current.result.dets[i].id] = 0
          /\ Current.frame.calls[i] > 0

\* index of the detection of track t that activates it on this frame
FirstQualIdx(result, t, lvl) ==
    CHOOSE i \in 1..Len(result.dets) :
        /\ result.dets[i].id = t
        /\ result.dets[i].conf >= lvl
        /\ \A j \in 1..(i - 1) :
              ~(result.dets[j].id = t /\ result.dets[j].conf >= lvl)
\* the retroactive pass of this iteration is over and had work to do
AfterRetro ==
    /\ module \in ThresholdModules
    /\ pc = "counters"
    /\ new_ids # {}
\* every box of a newly activated track on a buffered frame other than the
\* current one has had exactly one apply_blur call
PastFramesOnce ==
    \A k \in 1..(Len(frame_buffer) - 1) :
        \A i \in 1..Len(frame_buffer[k].result.dets) :
            (/\ frame_buffer[k].result.has_ids
             /\ frame_buffer[k].result.dets[i].id \in new_ids) =>
                frame_buffer[k].frame.calls[i] = 1

C23_SingleExit ==
    pc \in {"loop", "process", "retro", "counters", "write"} =>
        /\ \A k \in 1..Len(out) :
              /\ out[k].idx + BUFFER_FRAMES - 1 <= n - 1
              /\ out[k].idx + BUFFER_FRAMES - 1 = n - 1 => pc = "loop"
        /\ Len(out) <= IF pc = "loop" THEN n ELSE n - 1

\* a two-frame buffer in mid-stream: frame 1 has just been written, at the
\* end of the iteration of frame 2
C23_Witness ==
    /\ pc = "loop"
    /\ BUFFER_FRAMES = 2
    /\ n = 3
    /\ Len(out) = 2
    /\ last_write.idx = 1

\* ---- labels, exact redaction, over-redaction, ordering, eviction ----
\* a frame handed to out.write carries no cv2.putText label
LabelFreeWrite ==
    (pc \in {"write", "flush"} /\ out' # out) =>
        \A i \in 1..Len(Head(frame_buffer).result.dets) :
            Head(frame_buffer).frame.labels[i] = 0

\* C24 as stated: no frame handed to out.write carries the text overlay.
C24_NoLabel == [][LabelFreeWrite]_vars

\* C25: in blur_video of yolo-clean a written frame k has every detection
\* of track t blurred when t's first qualifying detection is on a frame
\* N <= k+BUFFER_FRAMES-1, and none of them blurred otherwise.
C25_Exact ==
    (module = "yolo" /\ Wrote) =>
        \A t \in last_write.tracks :
            IF /\ first_qual[t] # -1
               /\ first_qual[t] <= last_write.idx + BUFFER_FRAMES - 1
            THEN t \notin last_write.bare
            ELSE t \notin last_write.covered

\* the six-frame buffer, track 1 on every frame, first qualifying on frame
\* 6: frame 0 is written bare, frames 1..6 blurred
C25_Witness ==
    /\ module = "yolo"
    /\ BUFFER_FRAMES = 6
    /\ first_qual[1] = 6
    /\ pc = "done"
    /\ BareFrames(1) = {0}
    /\ Len(out) = 7

\* C26: in blur_video of yolo-clean a track none of whose detections has
\* reached conf_lvl is not in blurred_ids, not in new_ids, and none of its
\* boxes has been passed to apply_blur, on a buffered or a written frame.
C26_NoOverRedaction ==
    module = "yolo" =>
        \A t \in Tracks :
            first_qual[t] = -1 =>
                /\ t \notin blurred_ids
                /\ t \notin new_ids
                /\ t \notin last_write.covered
                /\ \A k \in 1..Len(frame_buffer) :
                      \A i \in 1..Len(frame_buffer[k].result.dets) :
                          (/\ frame_buffer[k].result.has_ids
                           /\ frame_buffer[k].result.dets[i].id = t) =>
                              frame_buffer[k].frame.calls[i] = 0

\* a frame is written that shows an activated track, blurred, next to a
\* track that never qualifies, untouched
C26_Witness ==
    /\ module = "yolo"
    /\ \E t, u \in Tracks :
          /\ first_qual[t] # -1
          /\ first_qual[u] = -1
          /\ t \in last_write.covered
          /\ u \in last_write.bare

\* C27: when the iteration of a frame reaches update_counters, every
\* detection on that frame of a track that has a qualifying detection on
\* it has been blurred, whatever its place in the detection list.
C27_SameFrame ==
    (module \in ThresholdModules /\ pc \in {"counters", "write"}) =>
        \A t \in Tracks :
            Qualifies(Current.result, t, conf_lvl) =>
                \A i \in 1..Len(Current.result.dets) :
                    Current.result.dets[i].id = t => Current.frame.calls[i] > 0

\* a frame with two detections of one track, the first below the threshold
\* and the second the activating one: the first was blurred by the
\* retroactive pass alone
C27_Witness ==
    /\ module = "yolo"
    /\ pc = "counters"
    /\ Len(Current.result.dets) = 2
    /\ Current.result.has_ids
    /\ Current.result.dets[1].id = Current.result.dets[2].id
    /\ Current.result.dets[1].conf < conf_lvl
    /\ Current.result.dets[2].conf >= conf_lvl
    /\ Current.result.dets[2].id \in new_ids
    /\ Current.frame.calls[1] = 1
    /\ Current.frame.calls[2] = 2

\* C28: whenever the loop is about to append, the deque holds at most
\* BUFFER_FRAMES-1 frames, and after the append its oldest frame is the
\* next frame to write: maxlen has discarded nothing.
C28_NoEviction ==
    /\ pc = "loop" => Len(frame_buffer) <= BUFFER_FRAMES - 1
    /\ pc = "process" =>
          /\ Len(frame_buffer) >= 1
          /\ frame_buffer[1].frame.idx = Len(out)

\* a one-frame buffer on its third frame: the two earlier frames were
\* written, none was discarded
C28_Witness ==
    /\ BUFFER_FRAMES = 1
    /\ pc = "process"
    /\ n = 3
    /\ Len(out) = 2
    /\ frame_buffer[1].frame.idx = 2

\* C29: the keys of blur_counters are tracks of blurred_ids, and for every
\* track the blur test of process_frame has the value of `track_id in
\* blurred_ids`.
C29_CountersRedundant ==
    /\ DOMAIN blur_counters \subseteq blurred_ids
    /\ \A t \in Tracks :
          ShouldBlur(t, blurred_ids, blur_counters) <=> t \in blurred_ids

\* a second run of process_video: one track carried over with its counter
\* run down, another activated in this run with its counter still positive
C29_Witness ==
    /\ module = "detblurv2"
    /\ \E t \in carried : blur_counters[t] = 0
    /\ \E u \in blurred_ids \ carried : blur_counters[u] > 0

\* ---- the protect endpoint ----
\* a request the handler has just taken up, for a video id without an entry
\* or an entry whose original file is gone, ends with 404 and the storage
\* as it was
NotFoundStep ==
    \A r \in DOMAIN requests :
        (requests[r].pc = "new" /\ requests'[r].pc # "new") =>
            LET v == requests'[r].videoId
            IN  (\/ v \notin DOMAIN video_storage
                 \/ video_storage[v].original_path \notin files) =>
                    /\ requests'[r].pc = "done"
                    /\ requests'[r].status = 404
                    /\ video_storage' = video_storage
\* an entry has the three protection fields together or not at all, its
\* protected_path is a file under processed/, and a step that changes an
\* existing entry is the step of a request that ends with 200
FieldsAfterPath ==
    /\ \A v \in DOMAIN video_storage' :
          /\ ProtectedKeys \cap DOMAIN video_storage'[v] \in {{}, ProtectedKeys}
          /\ "protected_path" \in DOMAIN video_storage'[v] =>
                /\ video_storage'[v].protected_path \in files'
                /\ video_storage'[v].protected_path.dir = "processed"
    /\ \A v \in DOMAIN video_storage :
          video_storage'[v] # video_storage[v] =>
              \E r \in DOMAIN requests :
                  /\ requests[r].pc = "sleep"
                  /\ requests[r].videoId = v
                  /\ requests'[r].status = 200
                  /\ video_storage'[v].protected_path \in files'

\* C30: a protect request for a videoId not in video_storage, or whose
\* original file no longer exists, ends with 404 and leaves video_storage
\* unchanged; protected_path, protected_pii and protection_time are set
\* only in a step that has produced the protected file.
C30_ProtectOnError == [][NotFoundStep /\ FieldsAfterPath]_vars

\* one request was refused with 404 because the original file of its entry
\* is gone, another ended with 200 and its entry carries the three fields
C30_Witness ==
    \E r1, r2 \in DOMAIN requests :
        /\ requests[r1].status = 404
        /\ requests[r1].videoId \in DOMAIN video_storage
        /\ video_storage[requests[r1].videoId].original_path \notin files
        /\ requests[r2].status = 200
        /\ ProtectedKeys \subseteq DOMAIN video_storage[requests[r2].videoId]

====
